---- MODULE Spec2Model ----
(***************************************************************************)
(* Hospital management API (Django REST framework application hms_api).    *)
(*                                                                         *)
(* The state is the content of the database tables (User, Profile, Token,  *)
(* Patient, MedicalRecord), the requests that are inside a handler between *)
(* two database statements, and the response produced by the last step.    *)
(* Every request handler of views.py is one action (signup and login, the  *)
(* two handlers that issue more than one write, are split at the point     *)
(* where another request can interleave).  The database runs in Django's   *)
(* default autocommit mode: every INSERT is committed on its own.          *)
(***************************************************************************)
EXTENDS Integers, FiniteSets, Sequences, Bags, TLC

VARIABLES users, profiles, tokens, patients, records, pending, issued, resp

vars == <<users, profiles, tokens, patients, records, pending, issued, resp>>

(* ------------------------------ bounds --------------------------------- *)
MaxUsers == 2
MaxPatients == 2
MaxRecords == 1
MaxInflight == 2

(* ----------------------------- constants ------------------------------- *)
Null == -1

Roles == {"doctor", "admin"}

DefaultRole == "doctor"

Usernames == 1..MaxUsers

Emails == {"e1", "e2"}

Passwords == {"pw1", "pw2"}

Ages == {-1, 0, 1}

(* Fixed texts of the responses. *)
MsgOwnPatients == "You can only add medical records to your own patients."

MsgPatientNotFound == "Patient not found."

MsgOnlyDoctors == "Only doctors can create patients."

MsgDuplicate == "Username or email already exists."

MsgInvalidCredentials == "Invalid credentials"

MsgPermissionDenied == "You do not have permission to perform this action."

MsgNotAuthenticated == "Authentication credentials were not provided."

MsgUnexpected == "An unexpected error occurred."

(* ------------------------- database look-ups --------------------------- *)
UserIds == {u.id : u \in users}

GetUser(id) == CHOOSE u \in users : u.id = id

HasProfile(id) == \E p \in profiles : p.user = id

Role(id) == (CHOOSE p \in profiles : p.user = id).role

IsSuperuser(id) == GetUser(id).is_superuser

PatientIds == {p.id : p \in patients}

GetPatient(pk) == CHOOSE p \in patients : p.id = pk

(* TokenAuthentication: the user the presented key belongs to, or Null. *)
TokenUser(key) ==
    IF \E t \in tokens : t.key = key
    THEN (CHOOSE t \in tokens : t.key = key).user
    ELSE Null

(* Token.generate_key: a key no existing row carries. *)
generate_key(toks) == Cardinality(toks) + 1

(* The INSERT of a Token row.  The user column is a OneToOneField: the     *)
(* INSERT fails (IntegrityError) when a row for the user exists, and       *)
(* get_or_create then reads that row back.                                 *)
(* A Token table without the unique constraint on user. *)
TokenInsertFails_NoConstraint(toks, id) == FALSE

TokenInsertFails(toks, id) == \E t \in toks : t.user = id

Token_create(toks, id) ==
    IF TokenInsertFails(toks, id)
    THEN toks
    ELSE toks \cup {[key |-> generate_key(toks), user |-> id]}

(* ----------------------------- responses ------------------------------- *)
Response(op, req, actor, status, detail, field, body) ==
    [op |-> op, req |-> req, actor |-> actor, status |-> status,
     detail |-> detail, field |-> field, body |-> body]

NoResp == Response("none", <<>>, Null, 0, "", "", {})

(* An exception raised inside a view: kind, message and (for a validation  *)
(* error) the field it is attached to.                                     *)
Exc(kind, detail, field) == [kind |-> kind, detail |-> detail, field |-> field]

(* The status and message a raised exception is answered with. *)
custom_exception_handler(exc) ==
    CASE exc.kind = "NotAuthenticated" ->
            [status |-> 401, detail |-> exc.detail, field |-> ""]
      [] exc.kind = "PermissionDenied" ->
            [status |-> 403, detail |-> exc.detail, field |-> ""]
      [] exc.kind = "ValidationError" ->
            [status |-> 400, detail |-> exc.detail, field |-> exc.field]
      [] exc.kind = "APIException" ->
            [status |-> 500, detail |-> exc.detail, field |-> ""]
      [] exc.kind = "Http404" ->
            [status |-> 404, detail |-> MsgUnexpected, field |-> ""]
      [] OTHER ->
            [status |-> 500, detail |-> "", field |-> ""]

Raised(op, req, actor, exc) ==
    LET h == custom_exception_handler(exc)
    IN  Response(op, req, actor, h.status, h.detail, h.field, {})

(* ---------------------------- permissions ------------------------------ *)
IsAuthenticated(user) == user # Null

IsDoctor(user) == user # Null /\ Role(user) = "doctor"

IsAdmin(user) == user # Null /\ (IsSuperuser(user) \/ Role(user) = "admin")

(* has_object_permission without the ownership test. *)
IsOwnerOrAdmin_Anyone(user, obj) == TRUE

IsOwnerOrAdmin(user, obj) ==
    IF IsSuperuser(user) \/ Role(user) = "admin"
    THEN TRUE
    ELSE obj.created_by = user

(* has_object_permission reads obj.patient.created_by: an object without   *)
(* the attribute patient raises AttributeError.                            *)
IsPatientRecordOwnerOrAdmin_object(user, obj) ==
    IF IsSuperuser(user) \/ Role(user) = "admin"
    THEN "allow"
    ELSE IF "patient" \in DOMAIN obj
         THEN IF GetPatient(obj.patient).created_by = user
              THEN "allow" ELSE "deny"
         ELSE "AttributeError"

IsPatientRecordOwnerOrAdmin(user) ==
    IF IsSuperuser(user) \/ Role(user) = "admin"
    THEN TRUE
    ELSE user # Null /\ Role(user) = "doctor"

(* --------------------------- patient views ---------------------------- *)
(* A request without credentials answered as a forbidden one. *)
NotAuthenticated_AsForbidden == Exc("PermissionDenied", MsgNotAuthenticated, "")

NotAuthenticated == Exc("NotAuthenticated", MsgNotAuthenticated, "")

PermissionDenied == Exc("PermissionDenied", MsgPermissionDenied, "")

PatientListCreateView_permission(user) == IsDoctor(user) \/ IsAdmin(user)

(* get_queryset without the created_by filter. *)
get_queryset_Unfiltered(user) == patients

PatientListCreateView_get_queryset(user) ==
    IF IsSuperuser(user) \/ (HasProfile(user) /\ Role(user) = "admin")
    THEN patients
    ELSE {p \in patients : p.created_by = user}

(* GET /patients/ *)
ListPatientsResponse(key) ==
    LET user == TokenUser(key)
        req  == [key |-> key]
    IN  IF ~IsAuthenticated(user)
        THEN Raised("list_patients", req, Null, NotAuthenticated)
        ELSE IF ~PatientListCreateView_permission(user)
        THEN Raised("list_patients", req, user, PermissionDenied)
        ELSE Response("list_patients", req, user, 200, "", "",
                      {p.id : p \in PatientListCreateView_get_queryset(user)})

validate_age(value) == value > 0

(* perform_create: the role test that precedes the save. *)
perform_create_allowed(user) ==
    IsSuperuser(user) \/ (HasProfile(user) /\ Role(user) = "doctor")

(* created_by taken from the body when the body names one. *)
perform_create_row_FromBody(user, data) ==
    [id |-> Cardinality(patients) + 1, age |-> data.age,
     created_by |-> IF data.created_by # Null THEN data.created_by ELSE user]

(* created_by is a read-only field of PatientSerializer: the value in the  *)
(* body never reaches validated_data; save(created_by=request.user).       *)
perform_create_row(user, data) ==
    [id |-> Cardinality(patients) + 1, age |-> data.age, created_by |-> user]

(* POST /patients/ *)
CreatePatientResponse(key, data) ==
    LET user == TokenUser(key)
        req  == [key |-> key, age |-> data.age, created_by |-> data.created_by]
    IN  IF ~IsAuthenticated(user)
        THEN Raised("create_patient", req, Null, NotAuthenticated)
        ELSE IF ~PatientListCreateView_permission(user)
        THEN Raised("create_patient", req, user, PermissionDenied)
        ELSE IF ~validate_age(data.age)
        THEN Raised("create_patient", req, user,
                    Exc("ValidationError", "Age must be greater than 0.", "age"))
        ELSE IF ~perform_create_allowed(user)
        THEN Raised("create_patient", req, user,
                    Exc("APIException", MsgOnlyDoctors, ""))
        ELSE Response("create_patient", req, user, 201, "", "",
                      {perform_create_row(user, data).id})

(* GET /patients/<pk>/ : get_object resolves the row (Http404), then the   *)
(* object permissions are checked.                                         *)
RetrievePatientResponse(key, pk) ==
    LET user == TokenUser(key)
        req  == [key |-> key, pk |-> pk]
    IN  IF ~IsAuthenticated(user)
        THEN Raised("retrieve_patient", req, Null, NotAuthenticated)
        ELSE IF pk \notin PatientIds
        THEN Raised("retrieve_patient", req, user, Exc("Http404", "", ""))
        ELSE IF ~IsOwnerOrAdmin(user, GetPatient(pk))
        THEN Raised("retrieve_patient", req, user, PermissionDenied)
        ELSE Response("retrieve_patient", req, user, 200, "", "", {pk})

(* ------------------------ medical record views ------------------------ *)
(* MedicalRecordSerializer.validate_patient: TRUE when the value passes. *)
validate_patient(user, value) ==
    IF ~IsSuperuser(user) /\ Role(user) # "admin"
    THEN value.created_by = user
    ELSE TRUE

MedicalRecordAddView_permission(user) == IsDoctor(user)

(* MedicalRecordAddView.perform_create: the exception it raises, if any. *)
MedicalRecordAddView_perform_create(user, pk) ==
    IF pk \notin PatientIds
    THEN "not_found"
    ELSE IF ~(IsSuperuser(user) \/ (HasProfile(user) /\ Role(user) = "admin"))
            /\ GetPatient(pk).created_by # user
         THEN "not_owner"
         ELSE "save"

(* The view without the ownership tests of validate_patient and            *)
(* perform_create.                                                         *)
AddRecordResponse_NoOwnership(key, pk) ==
    LET user == TokenUser(key)
        req  == [key |-> key, patient |-> pk]
    IN  IF ~IsAuthenticated(user)
        THEN Raised("add_record", req, Null, NotAuthenticated)
        ELSE IF ~MedicalRecordAddView_permission(user)
        THEN Raised("add_record", req, user, PermissionDenied)
        ELSE IF pk \notin PatientIds
        THEN Raised("add_record", req, user,
                    Exc("ValidationError", "Invalid pk - object does not exist.", "patient"))
        ELSE Response("add_record", req, user, 201, "", "",
                      {Cardinality(records) + 1})

(* POST /patients/records/add/ *)
AddRecordResponse(key, pk) ==
    LET user == TokenUser(key)
        req  == [key |-> key, patient |-> pk]
    IN  IF ~IsAuthenticated(user)
        THEN Raised("add_record", req, Null, NotAuthenticated)
        ELSE IF ~MedicalRecordAddView_permission(user)
        THEN Raised("add_record", req, user, PermissionDenied)
        ELSE IF pk \notin PatientIds
        THEN Raised("add_record", req, user,
                    Exc("ValidationError", "Invalid pk - object does not exist.", "patient"))
        ELSE IF ~validate_patient(user, GetPatient(pk))
        THEN Raised("add_record", req, user,
                    Exc("ValidationError", MsgOwnPatients, "patient"))
        ELSE IF MedicalRecordAddView_perform_create(user, pk) = "not_found"
        THEN Raised("add_record", req, user,
                    Exc("APIException", MsgPatientNotFound, ""))
        ELSE IF MedicalRecordAddView_perform_create(user, pk) = "not_owner"
        THEN Raised("add_record", req, user,
                    Exc("APIException", MsgOwnPatients, ""))
        ELSE Response("add_record", req, user, 201, "", "",
                      {Cardinality(records) + 1})

PatientMedicalRecordListView_get_queryset(pk) ==
    {r \in records : r.patient = pk}

(* GET /patients/<pk>/records/ *)
ListRecordsResponse(key, pk) ==
    LET user == TokenUser(key)
        req  == [key |-> key, pk |-> pk]
    IN  IF ~IsAuthenticated(user)
        THEN Raised("list_records", req, Null, NotAuthenticated)
        ELSE IF ~IsPatientRecordOwnerOrAdmin(user)
        THEN Raised("list_records", req, user, PermissionDenied)
        ELSE IF pk \notin PatientIds
        THEN Raised("list_records", req, user,
                    Exc("APIException", MsgPatientNotFound, ""))
        ELSE IF IsPatientRecordOwnerOrAdmin_object(user, GetPatient(pk)) = "AttributeError"
        THEN Raised("list_records", req, user, Exc("AttributeError", "", ""))
        ELSE IF IsPatientRecordOwnerOrAdmin_object(user, GetPatient(pk)) = "deny"
        THEN Raised("list_records", req, user, PermissionDenied)
        ELSE Response("list_records", req, user, 200, "", "",
                      {r.id : r \in PatientMedicalRecordListView_get_queryset(pk)})

(* ------------------------------ fixtures ------------------------------- *)
(* post_save receivers of User: create_user_profile inserts a Profile with *)
(* the default role when the User row was created.                         *)
create_user_profile(profs, id) == profs \cup {[user |-> id, role |-> DefaultRole]}

(* Profile.objects.create: user is a OneToOneField, a second row for the   *)
(* same user violates its unique constraint.                               *)
ProfileInsertFails(profs, id) == \E p \in profs : p.user = id

(* A user provisioned outside the API, as the test fixtures do:            *)
(* create_user or create_superuser (the receiver adds the Profile),        *)
(* profile.role set and saved, Token.objects.create.                       *)
ProvisionUser(su, role) ==
    /\ resp = NoResp
    /\ Cardinality(users) < MaxUsers
    /\ LET id   == Cardinality(users) + 1
           name == CHOOSE n \in Usernames :
                      /\ n \notin {u.username : u \in users}
                      /\ \A m \in Usernames :
                            m \notin {u.username : u \in users} => n <= m
       IN  /\ \E n \in Usernames : n \notin {u.username : u \in users}
           /\ users' = users \cup {[id |-> id, username |-> name, email |-> "",
                                    password |-> "pw1", is_superuser |-> su]}
           /\ profiles' = {[p EXCEPT !.role = role] :
                              p \in {q \in create_user_profile(profiles, id) : q.user = id}}
                          \cup profiles
           /\ tokens' = Token_create(tokens, id)
    /\ resp' = NoResp
    /\ UNCHANGED <<patients, records, pending, issued>>

(* ------------------------------ actions -------------------------------- *)
(* The credential of a request: the key of a Token row, none (Null), or a  *)
(* key that no row carries.                                                *)
Keys == {t.key : t \in tokens} \cup {Null, generate_key(tokens)}

Pks == PatientIds \cup {Cardinality(patients) + 1}

(* Bodies of a create-patient request: every age without a creator, and a  *)
(* valid age with every user named as creator.                             *)
PatientBodies ==
    {[age |-> a, created_by |-> Null] : a \in Ages}
    \cup {[age |-> 1, created_by |-> c] : c \in UserIds}

ListPatients(key) ==
    /\ resp = NoResp
    /\ resp' = ListPatientsResponse(key)
    /\ UNCHANGED <<users, profiles, tokens, patients, records, pending, issued>>

CreatePatient(key, data) ==
    /\ resp = NoResp
    /\ resp' = CreatePatientResponse(key, data)
    /\ IF resp'.status = 201
       THEN /\ Cardinality(patients) < MaxPatients
            /\ patients' = patients \cup {perform_create_row(TokenUser(key), data)}
       ELSE patients' = patients
    /\ UNCHANGED <<users, profiles, tokens, records, pending, issued>>

RetrievePatient(key, pk) ==
    /\ resp = NoResp
    /\ resp' = RetrievePatientResponse(key, pk)
    /\ UNCHANGED <<users, profiles, tokens, patients, records, pending, issued>>

AddRecord(key, pk) ==
    /\ resp = NoResp
    /\ resp' = AddRecordResponse(key, pk)
    /\ IF resp'.status = 201
       THEN /\ Cardinality(records) < MaxRecords
            /\ records' = records \cup {[id |-> Cardinality(records) + 1, patient |-> pk]}
       ELSE records' = records
    /\ UNCHANGED <<users, profiles, tokens, patients, pending, issued>>

ListRecords(key, pk) ==
    /\ resp = NoResp
    /\ resp' = ListRecordsResponse(key, pk)
    /\ UNCHANGED <<users, profiles, tokens, patients, records, pending, issued>>

(* The response leaves the server; the next step starts from there. *)
Deliver ==
    /\ resp # NoResp
    /\ resp' = NoResp
    /\ UNCHANGED <<users, profiles, tokens, patients, records, pending, issued>>

Init ==
    /\ users = {}
    /\ profiles = {}
    /\ tokens = {}
    /\ patients = {}
    /\ records = {}
    /\ pending = EmptyBag
    /\ issued = [u \in 1..MaxUsers |-> {}]
    /\ resp = NoResp

Next ==
    \/ \E su \in BOOLEAN, role \in Roles : ProvisionUser(su, role)
    \/ \E key \in Keys : ListPatients(key)
    \/ \E key \in Keys, data \in PatientBodies : CreatePatient(key, data)
    \/ \E key \in Keys, pk \in Pks : RetrievePatient(key, pk)
    \/ \E key \in Keys, pk \in Pks : AddRecord(key, pk)
    \/ \E key \in Keys, pk \in Pks : ListRecords(key, pk)
    \/ Deliver

Spec == Init /\ [][Next]_vars

(* ------------------------------- signup -------------------------------- *)
(* is_valid without validate(): the passwords are not compared. *)
is_valid_NoPasswordMatch(data) ==
    IF \E u \in users : u.username = data.username
    THEN "username"
    ELSE ""

(* UserRegistrationSerializer.is_valid: the field validators run first     *)
(* (username carries the model's UniqueValidator); validate(), which       *)
(* compares the passwords, runs only when no field failed.  The result is  *)
(* the name of the field in error, or "" when the data is valid.           *)
UserRegistrationSerializer_is_valid(data) ==
    IF \E u \in users : u.username = data.username
    THEN "username"
    ELSE IF data.password # data.password2
    THEN "password"
    ELSE ""

(* User.objects.create_user: username is unique at the database; e-mail is *)
(* not.  TRUE when the INSERT raises IntegrityError.                       *)
UserInsertFails(us, data) == \E u \in us : u.username = data.username

(* The request enters the view: is_valid() either answers 400 at once or   *)
(* lets the request proceed to serializer.save().                          *)
SignupValidate(data) ==
    LET bad == UserRegistrationSerializer_is_valid(data)
    IN  /\ resp = NoResp
        /\ IF bad # ""
           THEN /\ resp' = Response("signup", data, Null, 400, "", bad, {})
                /\ pending' = pending
           ELSE /\ BagCardinality(pending) < MaxInflight
                /\ resp' = NoResp
                /\ pending' = pending (+) SetToBag({[op |-> "signup", data |-> data]})
        /\ UNCHANGED <<users, profiles, tokens, patients, records, issued>>

(* serializer.save() and the rest of the view: create_user (the post_save  *)
(* receivers run inside it), Profile.objects.create, Token get_or_create.  *)
(* Each INSERT is committed on its own; IntegrityError is caught by the    *)
(* view and answered with 400.                                             *)
SignupSave(r) ==
    /\ resp = NoResp
    /\ r \in BagToSet(pending)
    /\ r.op = "signup"
    /\ pending' = pending (-) SetToBag({r})
    /\ LET data == r.data
           id   == Cardinality(users) + 1
           row  == [id |-> id, username |-> data.username, email |-> data.email,
                    password |-> data.password, is_superuser |-> FALSE]
           profs1 == create_user_profile(profiles, id)
       IN  IF UserInsertFails(users, data)
           THEN /\ resp' = Response("signup", data, Null, 400, MsgDuplicate, "", {})
                /\ UNCHANGED <<users, profiles, tokens>>
           ELSE IF ProfileInsertFails(profs1, id)
           THEN /\ users' = users \cup {row}
                /\ profiles' = profs1
                /\ tokens' = tokens
                /\ resp' = Response("signup", data, Null, 400, MsgDuplicate, "", {})
           ELSE /\ users' = users \cup {row}
                /\ profiles' = profs1 \cup {[user |-> id, role |-> data.role]}
                /\ tokens' = Token_create(tokens, id)
                /\ resp' = Response("signup", data, Null, 201, "", "", {id})
    /\ UNCHANGED <<patients, records, issued>>

(* -------------------------------- login -------------------------------- *)
(* django.contrib.auth.authenticate: the user id, or Null. *)
authenticate(username, password) ==
    IF \E u \in users : u.username = username /\ u.password = password
    THEN (CHOOSE u \in users : u.username = username /\ u.password = password).id
    ELSE Null

TokenOf(toks, id) == (CHOOSE t \in toks : t.user = id).key

LoginOk(req, id, key) == Response("login", req, id, 200, "Login successful", "", {key})

(* An answer that tells a registered username from an unknown one. *)
LoginFailed_Leaky(req) ==
    IF \E u \in users : u.username = req.username
    THEN Response("login", req, Null, 401, "Wrong password", "", {})
    ELSE Response("login", req, Null, 401, MsgInvalidCredentials, "", {})

(* The else branch of login_view: one answer for every failed authenticate. *)
LoginFailed(req) ==
    Response("login", req, Null, 401, MsgInvalidCredentials, "", {})

(* authenticate, then the SELECT of get_or_create: a hit answers at once,  *)
(* a miss leaves the request before its INSERT.                            *)
Login(username, password) ==
    LET user == authenticate(username, password)
        req  == [username |-> username, password |-> password]
    IN  /\ resp = NoResp
        /\ IF user = Null
           THEN /\ resp' = LoginFailed(req)
                /\ UNCHANGED <<pending, issued>>
           ELSE IF \E t \in tokens : t.user = user
           THEN /\ resp' = LoginOk(req, user, TokenOf(tokens, user))
                /\ issued' = [issued EXCEPT ![user] = @ \cup {TokenOf(tokens, user)}]
                /\ pending' = pending
           ELSE /\ BagCardinality(pending) < MaxInflight
                /\ resp' = NoResp
                /\ pending' = pending (+) SetToBag({[op |-> "login", user |-> user, req |-> req]})
                /\ issued' = issued
        /\ UNCHANGED <<users, profiles, tokens, patients, records>>

(* The INSERT of get_or_create; on IntegrityError the row that won is read *)
(* back and returned.                                                      *)
LoginCreateToken(r) ==
    /\ resp = NoResp
    /\ r \in BagToSet(pending)
    /\ r.op = "login"
    /\ pending' = pending (-) SetToBag({r})
    /\ tokens' = Token_create(tokens, r.user)
    /\ resp' = LoginOk(r.req, r.user, TokenOf(tokens', r.user))
    /\ issued' = [issued EXCEPT ![r.user] = @ \cup {TokenOf(tokens', r.user)}]
    /\ UNCHANGED <<users, profiles, patients, records>>

(* Signup requests over every input; no login. *)
NextSignup ==
    \/ \E username \in Usernames, email \in Emails, role \in Roles,
          pw2 \in Passwords :
          SignupValidate([username |-> username, email |-> email,
                          password |-> "pw1", password2 |-> pw2, role |-> role])
    \/ \E r \in BagToSet(pending) : SignupSave(r)
    \/ Deliver

SpecSignup == Init /\ [][NextSignup]_vars

(* Signup and login interleaved; the registrations are all valid doctors. *)
NextLogin ==
    \/ \E username \in Usernames :
          SignupValidate([username |-> username, email |-> "e1",
                          password |-> "pw1", password2 |-> "pw1", role |-> "doctor"])
    \/ \E r \in BagToSet(pending) : SignupSave(r)
    \/ \E username \in Usernames, password \in Passwords : Login(username, password)
    \/ \E r \in BagToSet(pending) : LoginCreateToken(r)
    \/ Deliver

SpecLogin == Init /\ [][NextLogin]_vars

(* ======================= properties of the API ========================= *)
(* Read from the tables alone: the actor is an admin (role admin or        *)
(* superuser); the actor created the patient; the patient exists.          *)
ActorIsAdmin(a) ==
    \E u \in users : u.id = a /\
        (u.is_superuser \/ \E p \in profiles : p.user = a /\ p.role = "admin")

PatientExists(pk) == \E p \in patients : p.id = pk

ActorCreated(a, pk) == \E p \in patients : p.id = pk /\ p.created_by = a

(* C1: a list-patients request by an authenticated actor who is not an     *)
(* admin returns exactly the patients whose created_by is the actor; the   *)
(* same request by an admin returns every patient.                         *)
C1_ListScope ==
    (resp.op = "list_patients" /\ resp.actor # Null) =>
        /\ resp.status = 200
        /\ resp.body = IF ActorIsAdmin(resp.actor)
                       THEN {p.id : p \in patients}
                       ELSE {p.id : p \in {q \in patients : q.created_by = resp.actor}}

(* A doctor lists while another user's patient is in the store. *)
C1_Witness ==
    /\ resp.op = "list_patients"
    /\ resp.actor # Null
    /\ ~ActorIsAdmin(resp.actor)
    /\ resp.body # {}
    /\ \E p \in patients : p.created_by # resp.actor

(* C2: a patient created through the endpoint has created_by equal to the  *)
(* requesting actor whatever creator the body names; created_by is never   *)
(* null and no step changes it.                                            *)
C2_CreatedBy ==
    /\ [](/\ (resp.op = "create_patient" /\ resp.status = 201) =>
                /\ resp.actor # Null
                /\ \E p \in patients : p.id \in resp.body
                /\ \A p \in patients : p.id \in resp.body => p.created_by = resp.actor
          /\ \A p \in patients :
                p.created_by # Null /\ \E u \in users : u.id = p.created_by)
    /\ [][\A p \in patients :
            \E q \in patients' : q.id = p.id /\ q.created_by = p.created_by]_vars

(* A patient was created by a request whose body named another user. *)
C2_Witness ==
    /\ resp.op = "create_patient"
    /\ resp.status = 201
    /\ resp.req.created_by # Null
    /\ resp.req.created_by # resp.actor

(* C3: retrieve-one-patient answers 404 when the id is absent (admin or    *)
(* not), else 403 when the actor is neither admin nor the creator, else    *)
(* 200 with that patient.                                                  *)
C3_Retrieve ==
    (resp.op = "retrieve_patient" /\ resp.actor # Null) =>
        IF ~PatientExists(resp.req.pk)
        THEN resp.status = 404
        ELSE IF ~ActorIsAdmin(resp.actor) /\ ~ActorCreated(resp.actor, resp.req.pk)
        THEN resp.status = 403
        ELSE resp.status = 200 /\ resp.body = {resp.req.pk}

(* A doctor asked for a patient another user created and got 403. *)
C3_Witness ==
    /\ resp.op = "retrieve_patient"
    /\ resp.actor # Null
    /\ PatientExists(resp.req.pk)
    /\ ~ActorIsAdmin(resp.actor)
    /\ ~ActorCreated(resp.actor, resp.req.pk)
    /\ resp.status = 403

(* C4: list-records answers 404 when the patient is absent, else 403       *)
(* unless the actor is an admin or the doctor who created the patient,     *)
(* else 200 with exactly the records of that patient.                      *)
C4_ListRecords ==
    (resp.op = "list_records" /\ resp.actor # Null) =>
        IF ~PatientExists(resp.req.pk)
        THEN resp.status = 404
        ELSE IF ~ActorIsAdmin(resp.actor) /\ ~ActorCreated(resp.actor, resp.req.pk)
        THEN resp.status = 403
        ELSE /\ resp.status = 200
             /\ resp.body = {r.id : r \in {x \in records : x.patient = resp.req.pk}}

(* C5: add-record by a doctor (not admin) answers 404 when the patient is  *)
(* absent and 403 with the own-patients message when another user created  *)
(* it, the records unchanged in both cases; for the doctor's own patient   *)
(* it answers 201 and one record attached to the patient is added.         *)
C5_AddRecordDoctor ==
    [][(resp'.op = "add_record" /\ resp'.actor # Null /\ ~ActorIsAdmin(resp'.actor)) =>
          IF ~PatientExists(resp'.req.patient)
          THEN resp'.status = 404 /\ records' = records
          ELSE IF ~ActorCreated(resp'.actor, resp'.req.patient)
          THEN /\ resp'.status = 403
               /\ resp'.detail = MsgOwnPatients
               /\ records' = records
          ELSE /\ resp'.status = 201
               /\ \E r \in records' \ records :
                     /\ r.patient = resp'.req.patient
                     /\ records' = records \cup {r}]_vars

(* C6: add-record by an admin naming an existing patient, whoever created  *)
(* it, answers 201 and adds exactly one record attached to that patient.   *)
C6_AdminAddRecord ==
    [][(resp'.op = "add_record" /\ resp'.actor # Null /\ ActorIsAdmin(resp'.actor)
            /\ PatientExists(resp'.req.patient)) =>
          /\ resp'.status = 201
          /\ \E r \in records' \ records :
                /\ r.patient = resp'.req.patient
                /\ records' = records \cup {r}]_vars

(* C7: create-patient with valid data answers 201 and adds exactly one     *)
(* patient for every authenticated actor who is a doctor or an admin.      *)
C7_CreatePatient ==
    [][(resp'.op = "create_patient" /\ resp'.actor # Null /\ resp'.req.age > 0) =>
          /\ resp'.status = 201
          /\ Cardinality(patients' \ patients) = 1
          /\ patients \subseteq patients']_vars

(* C8: a valid signup (matching passwords, unused username) answers 201    *)
(* and leaves exactly one User row with the username, whose Profile has    *)
(* the requested role.                                                     *)
C8_SignupValid ==
    [][(/\ resp'.op = "signup"
        /\ resp'.req.password = resp'.req.password2
        /\ ~\E u \in users : u.username = resp'.req.username) =>
          /\ resp'.status = 201
          /\ Cardinality({u \in users' : u.username = resp'.req.username}) = 1
          /\ \A u \in users' : u.username = resp'.req.username =>
                /\ \E p \in profiles' : p.user = u.id
                /\ \A p \in profiles' : p.user = u.id => p.role = resp'.req.role]_vars

(* C9: of the signups that share a username or an e-mail, in any           *)
(* interleaving, the one that reaches the store first answers 201 and      *)
(* every other answers 400 with the duplicate message; no two User rows    *)
(* share a username or an e-mail.                                          *)
C9_UniqueSignup ==
    [][/\ (resp'.op = "signup" /\ resp'.req.password = resp'.req.password2) =>
             IF \E u \in users : \/ u.username = resp'.req.username
                                 \/ u.email = resp'.req.email
             THEN /\ resp'.status = 400
                  /\ resp'.detail = MsgDuplicate
                  /\ users' = users
             ELSE /\ resp'.status = 201
                  /\ Cardinality(users' \ users) = 1
       /\ \A u1, u2 \in users' :
             (u1.username = u2.username \/ u1.email = u2.email) => u1 = u2]_vars

(* C10: at most one Token row per user in every state, and every           *)
(* successful login of a user returns the key every earlier one returned.  *)
C10_OneToken ==
    /\ \A t1, t2 \in tokens : t1.user = t2.user => t1 = t2
    /\ \A u \in DOMAIN issued : Cardinality(issued[u]) <= 1
    /\ (resp.op = "login" /\ resp.status = 200) =>
          /\ resp.body \subseteq issued[resp.actor]
          /\ \A k \in resp.body : [key |-> k, user |-> resp.actor] \in tokens

(* A login was answered while another login of the same user, which also   *)
(* found no Token row, is still before its INSERT.                         *)
C10_Witness ==
    /\ resp.op = "login"
    /\ resp.status = 200
    /\ \E r \in BagToSet(pending) : r.op = "login" /\ r.user = resp.actor

(* C11: a login with an unknown username and a login with a registered     *)
(* username and a wrong password get the same answer, 401 with detail      *)
(* "Invalid credentials", and neither creates a token.                     *)
C11_LoginFailure ==
    [][(/\ resp'.op = "login"
        /\ ~\E u \in users : /\ u.username = resp'.req.username
                             /\ u.password = resp'.req.password) =>
          /\ [resp' EXCEPT !.req = <<>>] =
                Response("login", <<>>, Null, 401, "Invalid credentials", "", {})
          /\ tokens' = tokens]_vars

(* A registered username was presented with a wrong password. *)
C11_Witness ==
    /\ resp.op = "login"
    /\ resp.status = 401
    /\ \E u \in users : /\ u.username = resp.req.username
                        /\ u.password # resp.req.password

DataOps == {"list_patients", "create_patient", "retrieve_patient",
            "add_record", "list_records"}

(* C12: a request to one of the five patient and record endpoints that     *)
(* carries no valid token is answered 401, whatever its body or target id, *)
(* and leaves the patients and the medical records unchanged.              *)
C12_Unauthenticated ==
    [][(/\ resp'.op \in DataOps
        /\ ~\E t \in tokens : t.key = resp'.req.key) =>
          /\ resp'.status = 401
          /\ patients' = patients
          /\ records' = records]_vars

(* A create-patient request with an invalid age and no valid token: the    *)
(* credentials are decided before the body.                                *)
C12_Witness ==
    /\ resp.op = "create_patient"
    /\ ~\E t \in tokens : t.key = resp.req.key
    /\ resp.req.age <= 0
    /\ resp.status = 401

ActorIsDoctor(a) == \E p \in profiles : p.user = a /\ p.role = "doctor"

(* C14: a create-patient request by a permitted actor (doctor or admin)    *)
(* with age <= 0 fails with 400 and a field error on age, the patients     *)
(* unchanged; with age 1 or more it succeeds; no patient has age <= 0.     *)
C14_Age ==
    [][/\ (/\ resp'.op = "create_patient"
           /\ resp'.actor # Null
           /\ (ActorIsDoctor(resp'.actor) \/ ActorIsAdmin(resp'.actor))) =>
             IF resp'.req.age <= 0
             THEN /\ resp'.status = 400
                  /\ resp'.field = "age"
                  /\ patients' = patients
             ELSE /\ resp'.status = 201
                  /\ Cardinality(patients' \ patients) = 1
       /\ \A p \in patients' : p.age > 0]_vars

(* C15: every request ends in one of the statuses 200, 201, 400, 401, 403  *)
(* or 404: no permission decision raises and no request ends as a 500.     *)
C15_Statuses ==
    resp.op # "none" => resp.status \in {200, 201, 400, 401, 403, 404}

(* C16: User and Profile creation in signup are one atomic unit: a signup  *)
(* either reports success and adds one User with its single Profile, or    *)
(* reports an error and adds no User row; every User has exactly one       *)
(* Profile.                                                                *)
C16_AtomicSignup ==
    [][/\ resp'.op = "signup" =>
             \/ /\ resp'.status = 201
                /\ Cardinality(users' \ users) = 1
             \/ /\ resp'.status # 201
                /\ users' = users
       /\ \A u \in users' :
             Cardinality({p \in profiles' : p.user = u.id}) = 1]_vars

(* C17: every medical record added references a patient that existed when *)
(* it was added and was added through add-record by the patient's creator  *)
(* or by an admin or superuser; every record's patient exists.             *)
C17_RecordOwnership ==
    [][/\ \A r \in records' \ records :
             /\ resp'.op = "add_record"
             /\ resp'.status = 201
             /\ r.patient = resp'.req.patient
             /\ PatientExists(r.patient)
             /\ \/ ActorIsAdmin(resp'.actor)
                \/ ActorCreated(resp'.actor, r.patient)
       /\ \A r \in records' : \E p \in patients' : p.id = r.patient]_vars

(* A doctor who is not an admin added a record to an own patient while a   *)
(* patient of another user is in the store.                                *)
C17_Witness ==
    /\ resp.op = "add_record"
    /\ resp.status = 201
    /\ ~ActorIsAdmin(resp.actor)
    /\ \E r \in records : r.patient = resp.req.patient
    /\ \E p \in patients : p.created_by # resp.actor

====
